---------------------------- MODULE Spec2Model ----------------------------
(*************************************************************************)
(* Model of the PlayReady OCDM system object of src/MediaSystem.cpp:     *)
(* the shared DRM application context (m_poAppContext), its platform     *)
(* initialisation, the drm store file, the secure-stop operations and    *)
(* the lock drmAppContextMutex_.                                         *)
(*                                                                       *)
(* The PlayReady SDK calls are outside the repository.  Their            *)
(* results are environment choices; the secure-stop store they keep is   *)
(* modelled from the specification's NonceLedger (section 4.3) and the   *)
(* comment at MediaSystem.cpp:40-46.                                     *)
(*************************************************************************)
EXTENDS Integers, Sequences, FiniteSets, TLC

(***************************** constants *********************************)

\* MediaSystem.cpp:46
NONCE_STORE_SIZE == 100

\* Capacity of the SDK's secure-stop store (specification, section 3).
LedgerCapacity == 100

\* Size in bytes of a DRM_ID (MediaSystem.cpp:387-388).
DRM_ID_SIZE == 16

\* Length of a SHA-256 digest, calculator.Length (MediaSystem.cpp:70-72).
SHA256_LENGTH == 32

(******************************* bounds **********************************)

\* Session ids the callers of the lifecycle specification use: 1..MaxSessionIds.
MaxSessionIds == 2

\* Fresh session ids issued beyond the ledger capacity in SpecLedger.
MaxOverflow == 2

\* Successful commits followed in SpecLedger.
MaxCommits == 1

\* Redirect hops the time authority answers before a terminal code.
MaxRedirects == 3

\* Unreleased Drm_Platform_Initialize calls followed.
MaxPlatformHeld == 2

\* Live MediaKeySession objects followed.
MaxSessions == 1

\* Size in bytes of the secure-stop challenge the SDK produces.
ChallengeSize == 2

\* Length in bytes of a non-empty server response.
ResponseSize == 1

\* Trusted-time values followed: 1..MaxTime (0: no time persisted).
MaxTime == 2

\* Outstanding working buffers of one kind are counted up to this many.
MaxBuffers == 2

(****************************** results **********************************)

CDMi_SUCCESS == "CDMi_SUCCESS"
CDMi_S_FALSE == "CDMi_S_FALSE"

DRM_SUCCESS == "DRM_SUCCESS"
DRM_S_FALSE == "DRM_S_FALSE"
DRM_E_FAIL == "DRM_E_FAIL"
DRM_E_INVALIDARG == "DRM_E_INVALIDARG"
DRM_E_OUTOFMEMORY == "DRM_E_OUTOFMEMORY"
DRM_E_NOMORE == "DRM_E_NOMORE"
DRM_E_SESSION_NOT_FOUND == "DRM_E_SECURESTOP_SESSION_NOT_FOUND"
DRM_E_INVALID_SIGNATURE == "DRM_E_INVALID_SIGNATURE"
DRM_E_SECURETIME_CLOCK_NOT_SET == "DRM_E_SECURETIME_CLOCK_NOT_SET"
DRM_E_TEE_PROVISIONING_REQUIRED == "DRM_E_TEE_PROVISIONING_REQUIRED"
DRM_E_CLK_NOT_SUPPORTED == "DRM_E_CLK_NOT_SUPPORTED"
DRM_E_CLOCK_ROLLBACK == "ClockRollbackDetected"

\* DRM_FAILED(dr): a DRM_RESULT is a failure when it is negative; DRM_SUCCESS (0)
\* and DRM_S_FALSE (1) are not.
DRM_FAILED(dr) == dr \notin {DRM_SUCCESS, DRM_S_FALSE}

(****************************** helpers **********************************)

Range(s) == {s[i] : i \in 1..Len(s)}

IsDistinct(s) == \A i, j \in 1..Len(s) : i # j => s[i] # s[j]

RemoveId(s, id) == SelectSeq(s, LAMBDA x : x # id)

Count(s, x) == Cardinality({i \in 1..Len(s) : s[i] = x})

LastN(s, n) == IF Len(s) <= n THEN s ELSE SubSeq(s, Len(s) - n + 1, Len(s))

(******************************* state ***********************************)

VARIABLES
    m_poAppContext,     \* TRUE when the unique_ptr holds a DRM_APP_CONTEXT
    m_drmOemContext,    \* TRUE when non-null
    platformHeld,       \* Drm_Platform_Initialize calls not yet released
    storeExists,        \* the file m_storeLocation exists
    ledger,             \* the SDK's secure-stop store, oldest first
    m_meteringCertificate, \* TRUE when a certificate was loaded
    sessions,           \* live MediaKeySession objects: the app context each got
    challenged,         \* session ids of the successful challenges, in order
    commits,            \* number of successful Drm_SecureStop_ProcessResponse
    lastCall,           \* the last call made and what it returned
    history,            \* whether call traces and the challenge history are kept
    pc,                 \* per thread: the operation in progress, or "idle"
    drmAppContextMutex_, \* 0 when free, otherwise the thread that holds it
    secureClock,        \* the locals of the InitSecureClock call in progress
    secureTime,         \* the trusted time the SDK has persisted (0: none)
    buffers             \* Oem_MemAlloc'ed working buffers not yet freed

vars == <<m_poAppContext, m_drmOemContext, platformHeld, storeExists, ledger,
          m_meteringCertificate, sessions, challenged, commits, lastCall,
          history, pc, drmAppContextMutex_, secureClock, secureTime, buffers>>

lifecycleVars == <<m_poAppContext, m_drmOemContext, platformHeld, storeExists,
                   m_meteringCertificate, sessions, buffers>>

ledgerVars == <<ledger, challenged, commits>>

\* The SDK and platform calls a handler made, in order; kept only when history
\* is on.
Log(calls, name) == IF history THEN Append(calls, name) ELSE calls

Threads == {1, 2}

\* The record every call leaves in lastCall; a call overrides what it sets.
NoCall ==
    [op |-> "none", cr |-> "none", dr |-> "none", calls |-> <<>>,
     sid |-> 0, sidLen |-> 0, respLen |-> 0,
     ids |-> <<>>, count |-> 0, idsLength |-> 0,
     copied |-> FALSE, rawSize |-> 0,
     failed |-> "none", clock |-> "none", rc |-> 0, clockFailed |-> "none",
     rev |-> "none", reinit |-> FALSE, ctx |-> FALSE, handle |-> 0,
     hashLength |-> 0, initCr |-> "none", live0 |-> FALSE,
     metering |-> "unset", revFile |-> "none", query |-> "none",
     cleanup |-> "none", uninit |-> 0, valid |-> FALSE, digest |-> 0]


\* The locals of InitSecureClock as they are declared: no call is in progress.
\* hops counts the redirects followed and ts, drResponse are the timestamp of
\* the response handed to the SDK and what the SDK answered.
NoClockCall ==
    [pc |-> "idle", rc |-> 0, petRespCode |-> 0, redirect |-> TRUE, hops |-> 0,
     failed |-> "none", posts |-> 0, ts |-> 0, drResponse |-> DRM_SUCCESS,
     challenge |-> FALSE, petitions |-> 0, url |-> -1, target |-> -1,
     postUrl |-> -1, postOk |-> FALSE]

(******************** the SDK's secure-stop store ************************)

\* The store is a FIFO of session ids: a new id is appended, and when the store
\* is full the oldest id rolls off; an id already pending is not inserted again.
LedgerInsert(l, id) ==
    IF id \in Range(l) THEN l
    ELSE IF Len(l) >= LedgerCapacity THEN Append(Tail(l), id)
    ELSE Append(l, id)

\* Drm_SecureStop_GenerateChallenge(ctx, id, ...): sdkOk is the environment's
\* part (allocation, signing).  A null context is an invalid argument.
Drm_SecureStop_GenerateChallenge(ctx, l, id, sdkOk) ==
    IF ~ctx THEN [dr |-> DRM_E_INVALIDARG, ledger |-> l, size |-> 0]
    ELSE IF ~sdkOk THEN [dr |-> DRM_E_FAIL, ledger |-> l, size |-> 0]
    ELSE [dr |-> DRM_SUCCESS, ledger |-> LedgerInsert(l, id), size |-> ChallengeSize]

\* Drm_SecureStop_EnumerateSessions(ctx, ..., &count, &ids): the pending ids,
\* oldest first.  On an empty store the SDK answers DRM_SUCCESS or DRM_E_NOMORE
\* (nomore), with a count of 0.  On failure count is not written.
Drm_SecureStop_EnumerateSessions(ctx, l, count0, sdkOk, nomore) ==
    IF ~ctx THEN [dr |-> DRM_E_INVALIDARG, count |-> count0, ids |-> <<>>]
    ELSE IF ~sdkOk THEN [dr |-> DRM_E_FAIL, count |-> count0, ids |-> <<>>]
    ELSE IF l = <<>> /\ nomore THEN [dr |-> DRM_E_NOMORE, count |-> 0, ids |-> <<>>]
    ELSE [dr |-> DRM_SUCCESS, count |-> Len(l), ids |-> l]

\* Drm_SecureStop_ProcessResponse(ctx, id, ..., response): a response is the
\* session id it was signed for (0: no valid signature).  The entry of id is
\* removed only when the response validates against it.
Drm_SecureStop_ProcessResponse(ctx, l, id, resp, respLen, sdkOk) ==
    IF ~ctx THEN [dr |-> DRM_E_INVALIDARG, ledger |-> l]
    ELSE IF id \notin Range(l) THEN [dr |-> DRM_E_SESSION_NOT_FOUND, ledger |-> l]
    ELSE IF ~sdkOk THEN [dr |-> DRM_E_FAIL, ledger |-> l]
    ELSE IF respLen = 0 \/ resp # id THEN [dr |-> DRM_E_INVALID_SIGNATURE, ledger |-> l]
    ELSE [dr |-> DRM_SUCCESS, ledger |-> RemoveId(l, id)]

(********************** secure-stop operations ***************************)

\* GetLdlSessionLimit() reporting one less than the constant.
GetLdlSessionLimit_OneLess == NONCE_STORE_SIZE - 1

\* GetLdlSessionLimit()
GetLdlSessionLimit == NONCE_STORE_SIZE

\* DRM_ID x; memcpy(x.rgb, sessionID, sessionIDLength): with fewer than
\* DRM_ID_SIZE bytes copied the rest of x.rgb is uninitialised (garbage).
SessionDrmId(sessionID, sessionIDLength, garbage) ==
    IF sessionIDLength >= DRM_ID_SIZE THEN sessionID ELSE garbage

\* The copy loop always reading entry 0 of the SDK's array.
EnumerateCopy_FirstEntry(ssSessionIds, count) == [i \in 1..count |-> ssSessionIds[1]]

\* The copy loop of GetSecureStopIds: entry i of the SDK's array goes to
\* ids[i * DRM_ID_SIZE], for i < count.
EnumerateCopy(ssSessionIds, count) == [i \in 1..count |-> ssSessionIds[i]]

\* GetSecureStopIds(ids, idsLength, count)
GetSecureStopIds(idsLength, count0, sdkOk, nomore) ==
    LET e == Drm_SecureStop_EnumerateSessions(m_poAppContext, ledger, count0,
                                               sdkOk, nomore)
        ok == e.dr = DRM_SUCCESS \/ e.dr = DRM_E_NOMORE
    IN  /\ lastCall' = [NoCall EXCEPT
               !.op = "GetSecureStopIds",
               !.cr = IF ok THEN CDMi_SUCCESS ELSE CDMi_S_FALSE,
               !.dr = e.dr,
               !.calls = Log(<<>>, "Drm_SecureStop_EnumerateSessions"),
               !.ids = IF ok THEN EnumerateCopy(e.ids, e.count) ELSE <<>>,
               !.count = e.count,
               !.idsLength = idsLength]
        /\ UNCHANGED <<lifecycleVars, ledgerVars>>

\* The challenge is copied out only into a buffer that is there and big enough.
ChallengeCopied(rawDataNull, rawSize, ssChallengeSize) ==
    ~rawDataNull /\ rawSize >= ssChallengeSize

\* GetSecureStop(sessionID, sessionIDLength, rawData, rawSize)
GetSecureStop(sessionID, sessionIDLength, garbage, rawDataNull, rawSize, sdkOk) ==
    LET id == SessionDrmId(sessionID, sessionIDLength, garbage)
        g == Drm_SecureStop_GenerateChallenge(m_poAppContext, ledger, id, sdkOk)
        ok == g.dr = DRM_SUCCESS
    IN  /\ ledger' = g.ledger
        /\ challenged' = IF ok /\ history THEN Append(challenged, id) ELSE challenged
        /\ lastCall' = [NoCall EXCEPT
               !.op = "GetSecureStop",
               !.cr = IF ok THEN CDMi_SUCCESS ELSE CDMi_S_FALSE,
               !.dr = g.dr,
               !.calls = Log(<<>>, "Drm_SecureStop_GenerateChallenge"),
               !.sid = id,
               !.sidLen = sessionIDLength,
               !.copied = ok /\ ChallengeCopied(rawDataNull, rawSize, g.size),
               !.rawSize = IF ok THEN g.size ELSE rawSize]
        /\ UNCHANGED <<lifecycleVars, commits>>

\* The argument checks without the one of serverResponseLength.
CommitPrecheck_NoResponseCheck(sessionIDLength, serverResponseLength) ==
    IF sessionIDLength = 0 THEN CDMi_S_FALSE ELSE CDMi_SUCCESS

\* CommitSecureStop, the checks of its arguments: cr after them.
CommitPrecheck(sessionIDLength, serverResponseLength) ==
    IF sessionIDLength = 0 \/ serverResponseLength = 0
    THEN CDMi_S_FALSE ELSE CDMi_SUCCESS

\* The session id copied from the server response instead of from sessionID.
CommitDrmId_FromResponse(sessionID, serverResponse) == serverResponse

\* CommitSecureStop: DRM_ID sessionDrmId; memcpy(sessionDrmId.rgb, sessionID,
\* sessionIDLength), for a sessionID of DRM_ID_SIZE bytes.
CommitDrmId(sessionID, serverResponse) == sessionID

\* CommitSecureStop, the result it returns: cr is what the argument checks left,
\* whatever Drm_SecureStop_ProcessResponse answered (dr is only logged).
CommitResult(cr, dr) == cr

\* CommitSecureStop(sessionID, sessionIDLength, serverResponse, serverResponseLength)
CommitSecureStop(sessionID, sessionIDLength, serverResponse, serverResponseLength, sdkOk) ==
    LET cr0 == CommitPrecheck(sessionIDLength, serverResponseLength)
        id == CommitDrmId(sessionID, serverResponse)
        p == IF cr0 = CDMi_SUCCESS
             THEN Drm_SecureStop_ProcessResponse(m_poAppContext, ledger, id,
                      serverResponse, serverResponseLength, sdkOk)
             ELSE [dr |-> "none", ledger |-> ledger]
    IN  /\ ledger' = p.ledger
        /\ commits' = IF p.dr = DRM_SUCCESS /\ history THEN commits + 1 ELSE commits
        /\ lastCall' = [NoCall EXCEPT
               !.op = "CommitSecureStop",
               !.cr = CommitResult(cr0, p.dr),
               !.dr = p.dr,
               !.calls = IF cr0 = CDMi_SUCCESS
                         THEN Log(<<>>, "Drm_SecureStop_ProcessResponse") ELSE <<>>,
               !.sid = sessionID,
               !.sidLen = sessionIDLength,
               !.respLen = serverResponseLength]
        /\ UNCHANGED <<lifecycleVars, challenged>>

(************************** clock bootstrap ******************************)

\* The response codes the time authority answers a petition with; after
\* MaxRedirects redirects the environment answers with a terminal code.
PetitionCodes(hops) ==
    IF hops >= MaxRedirects THEN {200, 404} ELSE {200, 301, 302, 404}

\* The redirect loop of InitSecureClock (do ... while (redirect)): the set of ways
\* it can end, from the response code of the last petition.  exit: the loop left
\* through ErrorExit with rc; otherwise it fell through with a 200.
RECURSIVE RedirectLoop(_, _, _)
RedirectLoop(petRespCode, hops, calls) ==
    IF petRespCode = 200
    THEN {[rc |-> 0, calls |-> calls, exit |-> FALSE, hops |-> hops]}
    ELSE IF petRespCode = 302 \/ petRespCode = 301
    THEN LET c2 == Log(calls, "PRDY_HTTP_Client_GetSecureTimeUrl")
         IN  {[rc |-> 1, calls |-> c2, exit |-> TRUE, hops |-> hops + 1]}
             \cup UNION {RedirectLoop(code, hops + 1, c2) :
                            code \in PetitionCodes(hops + 1)}
    ELSE {[rc |-> -1, calls |-> calls, exit |-> TRUE, hops |-> hops]}

\* What InitSecureClock returns when Drm_SecureTime_ProcessResponse answered
\* drResponse: a failure leaves through ChkDR with rc as the last allocation left
\* it, which is 0.
ClockResponseRc(drResponse) == 0

\* What InitSecureClock returns when Drm_SecureTime_GenerateChallenge failed:
\* ChkDR leaves with rc still 0.
ClockChallengeRc(dr) == 0

\* InitSecureClock(pDrmAppCtx): the set of ways the call can end.  rc is what
\* it returns, failed the step that failed ("none" when none did), clockSet
\* whether the response was applied to the clock.
InitSecureClock ==
    LET c1 == Log(<<>>, "Drm_SecureTime_GenerateChallenge")
        c2 == Log(c1, "PRDY_HTTP_Client_GetForwardLinkUrl")
        Out(rc, calls, failed, set, hops) ==
            [rc |-> rc, calls |-> calls, failed |-> failed, clockSet |-> set,
             hops |-> IF history THEN hops ELSE 0]
        AfterLoop(l) ==
            LET c3 == Log(l.calls, "PRDY_HTTP_Client_SecureTimeChallengePost")
                c4 == Log(c3, "Drm_SecureTime_ProcessResponse")
            IN  { Out(1, l.calls, "NEXUS_Memory_Allocate(response)", FALSE, l.hops),
                  Out(1, c3, "PRDY_HTTP_Client_SecureTimeChallengePost", FALSE, l.hops),
                  Out(ClockResponseRc(DRM_E_FAIL), c4,
                      "Drm_SecureTime_ProcessResponse", FALSE, l.hops),
                  Out(0, c4, "none", TRUE, l.hops) }
    IN  { Out(ClockChallengeRc(DRM_E_FAIL), c1,
              "Drm_SecureTime_GenerateChallenge", FALSE, 0),
          Out(1, c1, "NEXUS_Memory_Allocate(url)", FALSE, 0),
          Out(1, c2, "PRDY_HTTP_Client_GetForwardLinkUrl", FALSE, 0) }
        \cup UNION { IF l.exit
                     THEN {Out(l.rc, l.calls,
                               IF l.rc = -1 THEN "unsupported response code"
                               ELSE "PRDY_HTTP_Client_GetSecureTimeUrl",
                               FALSE, l.hops)}
                     ELSE AfterLoop(l)
                     : l \in UNION {RedirectLoop(code, 0, c2) :
                                       code \in PetitionCodes(0)} }

(*************************** revocation list *****************************)

\* LoadRevocationList(revListFile): the ways the call can end.  ok is what it
\* returns, file whether the revocation list file could be opened.  The first
\* definition is the function failing when the file cannot be opened.
LoadRevocationList_AbsentFails ==
    { [ok |-> FALSE, file |-> FALSE, calls |-> <<>>, failed |-> "fopen"],
      [ok |-> TRUE,  file |-> TRUE,
       calls |-> Log(<<>>, "Drm_Revocation_StorePackage"),
       failed |-> "none"] }

LoadRevocationList ==
    { [ok |-> TRUE,  file |-> FALSE, calls |-> <<>>, failed |-> "none"],
      [ok |-> FALSE, file |-> TRUE, calls |-> <<>>, failed |-> "BKNI_Malloc"],
      [ok |-> FALSE, file |-> TRUE,
       calls |-> Log(<<>>, "Drm_Revocation_StorePackage"),
       failed |-> "Drm_Revocation_StorePackage"],
      [ok |-> TRUE,  file |-> TRUE,
       calls |-> Log(<<>>, "Drm_Revocation_StorePackage"),
       failed |-> "none"] }

(**************************** CreateSystemExt ****************************)

\* The results Drm_SecureTime_GetValue answers the clock query with.
GetValueResults ==
    {DRM_SUCCESS, DRM_E_SECURETIME_CLOCK_NOT_SET, DRM_E_TEE_PROVISIONING_REQUIRED,
     DRM_E_CLK_NOT_SUPPORTED, DRM_E_FAIL}

\* The branch CreateSystemExt takes on the result dr of Drm_SecureTime_GetValue:
\* the network bootstrap, the anti-rollback clock, ErrorExit, or none of them.
\* The first definition runs the network bootstrap on every failure.
ClockStrategy_NetworkOnAnyError(dr) ==
    IF dr # DRM_SUCCESS THEN "network" ELSE "none"

ClockStrategy(dr) ==
    IF dr = DRM_E_SECURETIME_CLOCK_NOT_SET \/ dr = DRM_E_TEE_PROVISIONING_REQUIRED
    THEN "network"
    ELSE IF dr = DRM_E_CLK_NOT_SUPPORTED THEN "antirollback"
    ELSE IF dr # DRM_SUCCESS THEN "error"
    ELSE "none"

\* The ErrorExit label of CreateSystemExt: the context is reset, and the call
\* fails, only when dr is a failure.
ErrorExitResets(dr) == DRM_FAILED(dr)

\* CreateSystemExt(): the set of ways the call can end, from the store file
\* (store0), the secure-stop store (ledger0) and whether the build supports
\* revocation.  live: m_poAppContext holds a context afterwards; cr: the result
\* returned; failed: the step that sent the call to ErrorExit ("none": it ran
\* to its end); clock: the clock strategy run; rc, clockFailed: what
\* InitSecureClock returned and the step of it that failed.
CreateSystemExt(store0, ledger0, revocationSupported) ==
    LET T0 == [calls |-> Log(Log(<<>>, "Oem_MemAlloc(opaque)"), "Drm_Initialize"),
               clock |-> "none", rc |-> 0, clockFailed |-> "none", rev |-> "none",
               revFile |-> "none", query |-> "none", revBuf |-> 0]
        Exit(dr, t, failed, st, l) ==
            [live |-> ~ErrorExitResets(dr),
             cr |-> IF ErrorExitResets(dr) THEN CDMi_S_FALSE ELSE CDMi_SUCCESS,
             dr |-> dr, calls |-> t.calls, failed |-> failed, clock |-> t.clock,
             rc |-> t.rc, clockFailed |-> t.clockFailed, rev |-> t.rev,
             revFile |-> t.revFile, query |-> t.query,
             opaque |-> 1, revBuf |-> t.revBuf,
             storeExists |-> st, ledger |-> l]
        Call(t, name) == [t EXCEPT !.calls = Log(@, name)]
        \* the store Drm_Initialize opened or created
        l1 == IF store0 THEN ledger0 ELSE <<>>
        Done(dr, t, failed) == Exit(dr, t, failed, TRUE, l1)
        FromProperty(t) ==
            LET t1 == Call(t, "Drm_Content_SetProperty")
            IN  {Done(DRM_E_FAIL, t1, "Drm_Content_SetProperty"),
                 Done(DRM_SUCCESS, t1, "none")}
        FromRevocation(t) ==
            IF revocationSupported
            THEN LET t1 == Call(t, "Oem_MemAlloc(revocation)")
                     t2 == [Call(t1, "Drm_Revocation_SetBuffer") EXCEPT !.revBuf = 1]
                     t3 == Call(t2, "LoadRevocationList")
                 IN  {Done(DRM_E_OUTOFMEMORY, t1, "Oem_MemAlloc(revocation)"),
                      Done(DRM_E_FAIL, t2, "Drm_Revocation_SetBuffer")}
                     \cup UNION {
                         LET t4 == [t3 EXCEPT !.calls = @ \o r.calls,
                                              !.rev = r.failed,
                                              !.revFile = IF r.file THEN "present"
                                                          ELSE "absent"]
                         IN  IF ~r.ok
                             \* dr still holds Drm_Revocation_SetBuffer's result
                             THEN {Done(DRM_SUCCESS, t4, "LoadRevocationList")}
                             ELSE FromProperty(t4)
                         : r \in LoadRevocationList }
            ELSE FromProperty(t)
        FromResize(t) ==
            LET t1 == Call(t, "Drm_ResizeInMemoryLicenseStore")
            IN  {Done(DRM_E_FAIL, t1, "Drm_ResizeInMemoryLicenseStore")}
                \cup FromRevocation(t1)
        FromGetValue(t, dr) ==
            IF ClockStrategy(dr) = "network"
            THEN UNION {
                     LET t1 == [t EXCEPT !.calls = Log(@, "InitSecureClock") \o c.calls,
                                         !.clock = "network", !.rc = c.rc,
                                         !.clockFailed = c.failed]
                     IN  IF c.rc # 0
                         THEN {Done(dr, t1, "InitSecureClock")}
                         ELSE FromResize(t1)
                     : c \in InitSecureClock }
            ELSE IF ClockStrategy(dr) = "antirollback"
            THEN LET t1 == [Call(t, "Drm_AntiRollBackClock_Init")
                               EXCEPT !.clock = "antirollback"]
                 IN  {Done(dr, t1, "Drm_AntiRollBackClock_Init")} \cup FromResize(t1)
            ELSE IF ClockStrategy(dr) = "error"
            THEN {Done(dr, t, "Drm_SecureTime_GetValue")}
            ELSE FromResize(t)
    IN  {Exit(DRM_E_FAIL, T0, "Drm_Initialize", store0, ledger0)}
        \cup UNION {FromGetValue([Call(T0, "Drm_SecureTime_GetValue")
                                      EXCEPT !.query = dr], dr) :
                       dr \in GetValueResults}

(********************** InitializeSystem / Deinitialize ******************)

\* DeinitializeSystem() giving up when the store cleanup fails.
DeinitializeSystem_CleanupBlocks(live, held, cleanupOk) ==
    IF live /\ ~cleanupOk
    THEN [live |-> TRUE, held |-> held, unbalanced |-> FALSE,
          cleanup |-> "failed", uninit |-> 0,
          calls |-> Log(<<>>, "Drm_StoreMgmt_CleanupStore(failed)")]
    ELSE [live |-> FALSE,
          held |-> IF held > 0 THEN held - 1 ELSE 0,
          unbalanced |-> held = 0,
          cleanup |-> IF ~live THEN "none" ELSE "ok",
          uninit |-> 1,
          calls |-> Log(IF live
                        THEN Log(Log(<<>>, "Drm_StoreMgmt_CleanupStore"),
                                 "Drm_Uninitialize")
                        ELSE <<>>,
                        "Drm_Platform_Uninitialize")]

\* DeinitializeSystem(): store cleanup and Drm_Uninitialize only on a live
\* context, Drm_Platform_Uninitialize always.  cleanupOk is the result of
\* Drm_StoreMgmt_CleanupStore, which is only logged.
DeinitializeSystem(live, held, cleanupOk) ==
    [live |-> FALSE,
     held |-> IF held > 0 THEN held - 1 ELSE 0,
     unbalanced |-> held = 0,
     cleanup |-> IF ~live THEN "none" ELSE IF cleanupOk THEN "ok" ELSE "failed",
     uninit |-> 1,
     calls |-> Log(IF live
                   THEN Log(Log(<<>>, IF cleanupOk THEN "Drm_StoreMgmt_CleanupStore"
                                      ELSE "Drm_StoreMgmt_CleanupStore(failed)"),
                            "Drm_Uninitialize")
                   ELSE <<>>,
                   "Drm_Platform_Uninitialize")]

\* InitializeSystem(): the set of ways the call can end from the current state.
InitializeSystemOutcomes ==
    LET Pre(cleanupOk) ==
            IF m_poAppContext
            THEN DeinitializeSystem(m_poAppContext, platformHeld, cleanupOk)
            ELSE [live |-> FALSE, held |-> platformHeld, unbalanced |-> FALSE,
                  cleanup |-> "none", uninit |-> 0, calls |-> <<>>]
        Stop(d, failed, dr, oem, held) ==
            [live |-> FALSE, oem |-> oem, held |-> held,
             storeExists |-> storeExists, ledger |-> ledger,
             cr |-> "none", dr |-> dr,
             calls |-> Log(d.calls, "Drm_Platform_Initialize"),
             failed |-> failed, clock |-> "none", rc |-> 0,
             clockFailed |-> "none", rev |-> "none",
             revFile |-> "none", query |-> "none", pre |-> d,
             opaque |-> 0, revBuf |-> 0]
        From(d) ==
            { Stop(d, "Drm_Platform_Initialize", DRM_E_FAIL, m_drmOemContext, d.held),
              Stop(d, "ChkMem(m_drmOemContext)", DRM_E_OUTOFMEMORY, FALSE, d.held + 1) }
            \cup { [live |-> c.live, oem |-> TRUE, held |-> d.held + 1,
                    storeExists |-> c.storeExists, ledger |-> c.ledger,
                    cr |-> c.cr, dr |-> c.dr,
                    calls |-> Log(Log(d.calls, "Drm_Platform_Initialize"),
                                  "CreateSystemExt") \o c.calls,
                    failed |-> c.failed, clock |-> c.clock, rc |-> c.rc,
                    clockFailed |-> c.clockFailed, rev |-> c.rev,
                    revFile |-> c.revFile, query |-> c.query, pre |-> d,
                    opaque |-> c.opaque, revBuf |-> c.revBuf]
                   : c \in UNION {CreateSystemExt(storeExists, ledger, rs) :
                                     rs \in BOOLEAN} }
    IN  UNION {From(Pre(cleanupOk)) :
                  cleanupOk \in IF m_poAppContext THEN BOOLEAN ELSE {TRUE}}

\* n buffers outstanding and k more allocated: the pointer to the earlier ones
\* is overwritten and none is freed.  The count is followed only while history
\* is on.
Outstanding(n, k) ==
    IF ~history THEN n
    ELSE IF n + k <= MaxBuffers THEN n + k ELSE MaxBuffers

\* The state InitializeSystem leaves, for the outcome o.
ApplyInitializeSystem(o) ==
    /\ o.held <= MaxPlatformHeld
    /\ buffers' = [opaque |-> Outstanding(buffers.opaque, o.opaque),
                   revocation |-> Outstanding(buffers.revocation, o.revBuf)]
    /\ m_poAppContext' = o.live
    /\ m_drmOemContext' = o.oem
    /\ platformHeld' = o.held
    /\ storeExists' = o.storeExists
    /\ ledger' = o.ledger

\* What a call that ran InitializeSystem with outcome o leaves in lastCall.
InitializeRecord(op, o) ==
    [NoCall EXCEPT
        !.op = op, !.cr = o.cr, !.initCr = o.cr, !.dr = o.dr, !.calls = o.calls,
        !.failed = o.failed, !.clock = o.clock, !.rc = o.rc,
        !.clockFailed = o.clockFailed, !.rev = o.rev,
        !.revFile = o.revFile, !.query = o.query,
        !.ctx = o.live]

\* Initialize(shell, configline): the metering certificate is loaded when it is
\* configured and readable; then InitializeSystem().
Initialize(metering) ==
    \E o \in InitializeSystemOutcomes :
        /\ ApplyInitializeSystem(o)
        /\ m_meteringCertificate' = (m_meteringCertificate \/ metering = "readable")
        /\ lastCall' = [InitializeRecord("Initialize", o) EXCEPT
                            !.metering = metering]
        /\ UNCHANGED <<sessions, challenged, commits>>

\* Deinitialize(shell): DeinitializeSystem().
Deinitialize(cleanupOk) ==
    LET d == DeinitializeSystem(m_poAppContext, platformHeld, cleanupOk)
    IN  /\ m_poAppContext' = d.live
        /\ platformHeld' = d.held
        /\ lastCall' = [NoCall EXCEPT
               !.op = "Deinitialize", !.calls = d.calls,
               !.cleanup = d.cleanup, !.uninit = d.uninit,
               !.live0 = m_poAppContext]
        /\ UNCHANGED <<m_drmOemContext, storeExists, m_meteringCertificate,
                       sessions, buffers, ledgerVars>>

(****************************** sessions *********************************)

SessionHandles == 1..MaxSessions

\* CreateMediaKeySession(...): InitializeSystem() when the store file is not
\* there; then a MediaKeySession is made on m_poAppContext.get(), whatever it
\* is, and CDMi_SUCCESS is returned.
NeedsReinit_Never(exists) == FALSE

NeedsReinit(exists) == ~exists

\* The body of CreateMediaKeySession once the store file was looked for.
CreateSession(h, reinit) ==
    /\ h \in SessionHandles
    /\ \A x \in sessions : x.h # h
    /\ IF reinit
       THEN \E o \in InitializeSystemOutcomes :
               /\ ApplyInitializeSystem(o)
               /\ sessions' = sessions \cup {[h |-> h, ctx |-> o.live]}
               /\ lastCall' = [InitializeRecord("CreateMediaKeySession", o) EXCEPT
                      !.cr = CDMi_SUCCESS, !.reinit = TRUE, !.handle = h,
                      !.live0 = m_poAppContext]
       ELSE /\ sessions' = sessions \cup {[h |-> h, ctx |-> m_poAppContext]}
            /\ lastCall' = [NoCall EXCEPT
                   !.op = "CreateMediaKeySession", !.cr = CDMi_SUCCESS,
                   !.ctx = m_poAppContext, !.handle = h,
                   !.live0 = m_poAppContext]
            /\ UNCHANGED <<m_poAppContext, m_drmOemContext, platformHeld,
                           storeExists, ledger, buffers>>
    /\ UNCHANGED <<m_meteringCertificate, challenged, commits>>

CreateMediaKeySession(h) == CreateSession(h, NeedsReinit(storeExists))

\* What DestroyMediaKeySession answers for a handle that is no live session of
\* this object, when the call returns: the ASSERT on the dynamic_cast is
\* compiled out, the handle is deleted and CDMi_SUCCESS returned.
DestroyInvalidResult == CDMi_SUCCESS

\* The process was ended by an ASSERT or by a crash.
Aborted == "abort"

Alive == lastCall.cr # Aborted

\* DestroyMediaKeySession(f_piMediaKeySession).  h is a live session of this
\* object, a handle this object no longer holds (dangling), or 0 for an object
\* that is no MediaKeySession.  For a handle that is not live the ASSERT of a
\* debug build, or the delete of a dangling pointer, ends the process (abort);
\* otherwise the call deletes and returns.
DestroyMediaKeySession(h, abort) ==
    /\ IF \E x \in sessions : x.h = h
       THEN /\ sessions' = {x \in sessions : x.h # h}
            /\ lastCall' = [NoCall EXCEPT
                   !.op = "DestroyMediaKeySession", !.cr = CDMi_SUCCESS,
                   !.handle = h, !.valid = TRUE]
       ELSE /\ sessions' = sessions
            /\ lastCall' = [NoCall EXCEPT
                   !.op = "DestroyMediaKeySession",
                   !.cr = IF abort THEN Aborted ELSE DestroyInvalidResult,
                   !.handle = h, !.valid = FALSE]
    /\ UNCHANGED <<m_poAppContext, m_drmOemContext, platformHeld, storeExists,
                   m_meteringCertificate, buffers, ledgerVars>>

(****************************** store file *******************************)

\* DeleteSecureStore(): remove(m_storeLocation); CDMi_SUCCESS whatever remove
\* answered.
DeleteSecureStore ==
    /\ storeExists' = FALSE
    /\ lastCall' = [NoCall EXCEPT
           !.op = "DeleteSecureStore", !.cr = CDMi_SUCCESS]
    /\ UNCHANGED <<m_poAppContext, m_drmOemContext, platformHeld,
                   m_meteringCertificate, sessions, buffers, ledgerVars>>

\* The store file is removed from outside the process.
ExternalRemoveStore ==
    /\ storeExists
    /\ storeExists' = FALSE
    /\ lastCall' = [NoCall EXCEPT
           !.op = "ExternalRemoveStore"]
    /\ UNCHANGED <<m_poAppContext, m_drmOemContext, platformHeld,
                   m_meteringCertificate, sessions, buffers, ledgerVars>>

\* The bytes of the store file, as far as they are followed: the pending
\* secure-stop session ids the SDK keeps in it.
StoreBytes(l) == l

\* Crypto::SHA256 over a byte sequence: Input(buffer, size), then Result().  The
\* digest is a value computed from every byte in order; 0 is kept for a hash
\* buffer nothing was written to.
HashBase == 31

HashModulus == 1000003

HashSeed == 7

RECURSIVE SHA256(_)
SHA256(bytes) ==
    IF bytes = <<>> THEN HashSeed
    ELSE (SHA256(SubSeq(bytes, 1, Len(bytes) - 1)) * HashBase + bytes[Len(bytes)])
             % HashModulus

\* calcFileSha256 writing the digest whatever hashLength is.
calcFileSha256_AnyLength(exists, bytes, hashLength) ==
    IF exists THEN [result |-> TRUE, hash |-> SHA256(bytes)]
    ELSE [result |-> FALSE, hash |-> 0]

\* calcFileSha256(filePath, hash, hashLength): what it returns and what it
\* leaves in hash, when it returns.
calcFileSha256(exists, bytes, hashLength) ==
    IF exists /\ hashLength = SHA256_LENGTH
    THEN [result |-> TRUE, hash |-> SHA256(bytes)]
    ELSE [result |-> FALSE, hash |-> 0]

\* GetSecureStoreHash(secureStoreHash, secureStoreHashLength).  On a file that
\* is there, ASSERT(hashLength == calculator.Length) ends the process in a
\* debug build (abort).
GetSecureStoreHash(secureStoreHashLength, abort) ==
    LET r == calcFileSha256(storeExists, StoreBytes(ledger), secureStoreHashLength)
        asserted == storeExists /\ secureStoreHashLength # SHA256_LENGTH /\ abort
    IN  /\ lastCall' = [NoCall EXCEPT
               !.op = "GetSecureStoreHash",
               !.cr = IF asserted THEN Aborted
                      ELSE IF r.result THEN CDMi_SUCCESS ELSE CDMi_S_FALSE,
               !.digest = IF asserted THEN 0 ELSE r.hash,
               !.hashLength = secureStoreHashLength]
        /\ UNCHANGED <<lifecycleVars, ledgerVars>>

(*********************** the sequential specifications *******************)

\* The state after construction: no context, no platform initialisation; the
\* store file of an earlier run may be there.
Constructed ==
    /\ m_poAppContext = FALSE
    /\ m_drmOemContext = FALSE
    /\ platformHeld = 0
    /\ storeExists \in BOOLEAN
    /\ ledger = <<>>
    /\ m_meteringCertificate = FALSE
    /\ sessions = {}
    /\ challenged = <<>>
    /\ commits = 0
    /\ lastCall = NoCall
    /\ pc = [t \in Threads |-> "idle"]
    /\ drmAppContextMutex_ = 0
    /\ secureClock = NoClockCall
    /\ secureTime = 0
    /\ buffers = [opaque |-> 0, revocation |-> 0]

\* The state after a first Initialize in which every step succeeded.
Ready ==
    /\ m_poAppContext = TRUE
    /\ m_drmOemContext = TRUE
    /\ platformHeld = 1
    /\ storeExists = TRUE
    /\ ledger = <<>>
    /\ m_meteringCertificate = FALSE
    /\ sessions = {}
    /\ challenged = <<>>
    /\ commits = 0
    /\ lastCall = NoCall
    /\ pc = [t \in Threads |-> "idle"]
    /\ drmAppContextMutex_ = 0
    /\ secureClock = NoClockCall
    /\ secureTime = 0
    /\ buffers = [opaque |-> 0, revocation |-> 0]

\* One caller at a time: no thread is inside a call between two steps.
sequentialVars == <<pc, drmAppContextMutex_, history, secureClock, secureTime>>

SessionIds == 1..MaxSessionIds

\* The server responses a caller passes with session id sid: none, one signed
\* for sid, one with no valid signature, one signed for another session.
Responses(sid) ==
    {<<0, 0>>, <<sid, ResponseSize>>, <<0, ResponseSize>>}
    \cup {<<o, ResponseSize>> : o \in SessionIds \ {sid}}

\* The caller's buffer for the challenge: <<rawData is null, rawSize>>.
ChallengeBuffers == {<<TRUE, 0>>, <<FALSE, 0>>, <<FALSE, ChallengeSize>>}

CallInitialize ==
    /\ Alive
    /\ \E metering \in {"unset", "unreadable", "readable"} : Initialize(metering)
    /\ UNCHANGED sequentialVars

CallDeinitialize ==
    /\ Alive
    /\ \E cleanupOk \in IF m_poAppContext THEN BOOLEAN ELSE {TRUE} :
          Deinitialize(cleanupOk)
    /\ UNCHANGED sequentialVars

CallCreateMediaKeySession ==
    /\ Alive
    /\ \E h \in SessionHandles : CreateMediaKeySession(h)
    /\ UNCHANGED sequentialVars

CallDestroyMediaKeySession ==
    /\ Alive
    /\ \E h \in {0} \cup SessionHandles, abort \in BOOLEAN :
          DestroyMediaKeySession(h, abort)
    /\ UNCHANGED sequentialVars

CallDeleteSecureStore == Alive /\ DeleteSecureStore /\ UNCHANGED sequentialVars

CallExternalRemoveStore == Alive /\ ExternalRemoveStore /\ UNCHANGED sequentialVars

CallGetSecureStoreHash ==
    /\ Alive
    /\ \E n \in {0, SHA256_LENGTH}, abort \in BOOLEAN : GetSecureStoreHash(n, abort)
    /\ UNCHANGED sequentialVars

CallGetSecureStopIds ==
    /\ Alive
    /\ \E idsLength \in {0, DRM_ID_SIZE * MaxSessionIds}, count0 \in {0, 1},
          sdkOk \in BOOLEAN, nomore \in BOOLEAN :
          GetSecureStopIds(idsLength, count0, sdkOk, nomore)
    /\ UNCHANGED sequentialVars

CallGetSecureStop ==
    /\ Alive
    /\ \E sid \in SessionIds, len \in {0, DRM_ID_SIZE}, sdkOk \in BOOLEAN,
          buf \in ChallengeBuffers :
          \E garbage \in IF len = 0 THEN SessionIds ELSE {sid} :
              GetSecureStop(sid, len, garbage, buf[1], buf[2], sdkOk)
    /\ UNCHANGED sequentialVars

CallCommitSecureStop ==
    /\ Alive
    /\ \E sid \in SessionIds, len \in {0, DRM_ID_SIZE}, sdkOk \in BOOLEAN :
          \E r \in Responses(sid) :
              CommitSecureStop(sid, len, r[1], r[2], sdkOk)
    /\ UNCHANGED sequentialVars

\* Spec: the lifecycle of the context, the store file and the sessions.
Init == Constructed /\ history = FALSE

Next ==
    \/ CallInitialize
    \/ CallDeinitialize
    \/ CallCreateMediaKeySession
    \/ CallDestroyMediaKeySession
    \/ CallDeleteSecureStore
    \/ CallExternalRemoveStore
    \/ CallGetSecureStoreHash

Spec == Init /\ [][Next]_vars

\* SpecStops: the secure-stop operations on a context that is initialised,
\* deinitialised and whose store is deleted in between.
StopsInitialize == Alive /\ Initialize("unset") /\ UNCHANGED sequentialVars

NextStops ==
    \/ StopsInitialize
    \/ CallDeinitialize
    \/ CallDeleteSecureStore
    \/ CallGetSecureStopIds
    \/ CallGetSecureStop
    \/ CallCommitSecureStop
    \/ CallGetSecureStoreHash

SpecStops == Init /\ [][NextStops]_vars

\* SpecTrace: initialisations and deinitialisations with the SDK and platform
\* calls of each call kept, in order.
InitTrace == Constructed /\ history = TRUE

NextTrace ==
    \/ StopsInitialize
    \/ CallDeinitialize

SpecTrace == InitTrace /\ [][NextTrace]_vars

\* SpecLedger: a ready context on which challenges for fresh session ids are
\* generated up to and beyond the capacity of the store, the oldest sessions
\* are committed, and the pending ids are enumerated.
InitLedger == Ready /\ history = TRUE

FreshId == Len(challenged) + 1

LedgerGetSecureStop ==
    /\ FreshId <= LedgerCapacity + MaxOverflow
    /\ \E sdkOk \in BOOLEAN :
          GetSecureStop(FreshId, DRM_ID_SIZE, FreshId, FALSE, ChallengeSize, sdkOk)
    /\ UNCHANGED sequentialVars

LedgerCommitSecureStop ==
    /\ commits < MaxCommits
    /\ \E sid \in SessionIds :
          \E r \in {<<0, 0>>, <<sid, ResponseSize>>, <<0, ResponseSize>>} :
              CommitSecureStop(sid, DRM_ID_SIZE, r[1], r[2], TRUE)
    /\ UNCHANGED sequentialVars

LedgerGetSecureStopIds ==
    /\ \E sdkOk \in BOOLEAN :
          GetSecureStopIds(DRM_ID_SIZE * LedgerCapacity, 0, sdkOk, FALSE)
    /\ UNCHANGED sequentialVars

NextLedger ==
    \/ LedgerGetSecureStop
    \/ LedgerCommitSecureStop
    \/ LedgerGetSecureStopIds

SpecLedger == InitLedger /\ [][NextLedger]_vars

(****************** InitSecureClock, statement by statement **************)

\* Drm_SecureTime_ProcessResponse(ctx, length, response): the response carries
\* the timestamp ts and is validly signed or not.  The SDK persists ts only
\* when the response validates and ts is not earlier than the time it has
\* persisted; otherwise it fails and keeps what it has.
Drm_SecureTime_ProcessResponse(stored, ts, valid) ==
    IF ~valid THEN [dr |-> DRM_E_INVALID_SIGNATURE, time |-> stored]
    ELSE IF ts < stored THEN [dr |-> DRM_E_CLOCK_ROLLBACK, time |-> stored]
    ELSE [dr |-> DRM_SUCCESS, time |-> ts]

\* The response codes a petition can be answered with.
PetRespCodes == {200, 301, 302, 404}

\* One more redirect followed; beyond MaxRedirects the count is no longer kept.
NextHop(hops) == IF hops < MaxRedirects THEN hops + 1 ELSE hops

\* URLs: g_dstrHttpSecureTimeServerUrl, the zeroed URL buffer, and the URL the
\* n-th petition of a call answered with (pTimeChallengeURL after it).
ServerUrl == 0

NoUrl == -1

PetitionUrl(n) == n

\* One more petition sent; beyond MaxRedirects + 1 the count is no longer kept.
NextPetition(n) == IF n <= MaxRedirects THEN n + 1 ELSE n

\* The challenge posted to the server URL instead of the URL in
\* pTimeChallengeURL.
ChallengePostUrl_Server(timeChallengeURL) == ServerUrl

\* The URL PRDY_HTTP_Client_SecureTimeChallengePost is given: pTimeChallengeURL.
ChallengePostUrl(timeChallengeURL) == timeChallengeURL

\* The steps of SpecClock leave everything but the clock alone.
ClockFrame == UNCHANGED <<lifecycleVars, ledgerVars, history, pc, drmAppContextMutex_>>

\* goto ErrorExit with rc and the step that failed.
ClockErrorExit(rc, failed) ==
    secureClock' = [secureClock EXCEPT !.pc = "ErrorExit", !.rc = rc, !.failed = failed]

\* InitSecureClock(pDrmAppCtx) is entered: the locals are initialised.
ClockCall ==
    /\ secureClock.pc = "idle"
    /\ secureClock' = [NoClockCall EXCEPT !.pc = "GenerateChallenge"]
    /\ UNCHANGED <<secureTime, lastCall>>
    /\ ClockFrame

\* dr = Drm_SecureTime_GenerateChallenge(...); ChkDR(dr);
ClockGenerateChallenge ==
    /\ secureClock.pc = "GenerateChallenge"
    /\ \E dr \in {DRM_SUCCESS, DRM_E_FAIL} :
          IF DRM_FAILED(dr)
          THEN ClockErrorExit(ClockChallengeRc(dr), "Drm_SecureTime_GenerateChallenge")
          ELSE secureClock' = [secureClock EXCEPT !.pc = "GetForwardLinkUrl",
                                                  !.challenge = TRUE]
    /\ UNCHANGED <<secureTime, lastCall>>
    /\ ClockFrame

\* The URL buffer is allocated and the petition is sent with
\* PRDY_HTTP_Client_GetForwardLinkUrl.
ClockPetition ==
    /\ secureClock.pc = "GetForwardLinkUrl"
    /\ \/ ClockErrorExit(1, "NEXUS_Memory_Allocate(url)")
       \/ secureClock' = [secureClock EXCEPT
              !.pc = "ErrorExit", !.rc = 1, !.petitions = 1, !.target = ServerUrl,
              !.failed = "PRDY_HTTP_Client_GetForwardLinkUrl"]
       \/ \E code \in PetRespCodes :
             secureClock' = [secureClock EXCEPT
                 !.pc = "loop", !.petRespCode = code, !.petitions = 1,
                 !.target = ServerUrl, !.url = PetitionUrl(1)]
    /\ UNCHANGED <<secureTime, lastCall>>
    /\ ClockFrame

\* One pass through the body of do { ... } while (redirect).
ClockRedirect ==
    /\ secureClock.pc = "loop"
    /\ IF secureClock.petRespCode = 200
       THEN secureClock' = [secureClock EXCEPT !.pc = "Post", !.redirect = FALSE]
       ELSE IF secureClock.petRespCode = 302 \/ secureClock.petRespCode = 301
       THEN \/ secureClock' = [secureClock EXCEPT
                   !.pc = "ErrorExit", !.rc = 1, !.redirect = TRUE,
                   !.hops = NextHop(@),
                   !.petitions = NextPetition(@),
                   !.target = secureClock.url, !.url = NoUrl,
                   !.failed = "PRDY_HTTP_Client_GetSecureTimeUrl"]
            \/ \E code \in PetRespCodes :
                  secureClock' = [secureClock EXCEPT
                      !.redirect = TRUE, !.hops = NextHop(@), !.petRespCode = code,
                      !.petitions = NextPetition(@),
                      !.target = secureClock.url,
                      !.url = PetitionUrl(NextPetition(secureClock.petitions))]
       ELSE secureClock' = [secureClock EXCEPT
                !.pc = "ErrorExit", !.rc = -1, !.redirect = FALSE,
                !.failed = "unsupported response code"]
    /\ UNCHANGED <<secureTime, lastCall>>
    /\ ClockFrame

\* The response buffer is allocated and the challenge is posted with
\* PRDY_HTTP_Client_SecureTimeChallengePost.
ClockPost ==
    /\ secureClock.pc = "Post"
    /\ \/ ClockErrorExit(1, "NEXUS_Memory_Allocate(response)")
       \/ secureClock' = [secureClock EXCEPT
              !.pc = "ErrorExit", !.rc = 1, !.posts = @ + 1,
              !.postUrl = ChallengePostUrl(secureClock.url),
              !.failed = "PRDY_HTTP_Client_SecureTimeChallengePost"]
       \/ secureClock' = [secureClock EXCEPT
              !.pc = "ProcessResponse", !.posts = @ + 1,
              !.postUrl = ChallengePostUrl(secureClock.url), !.postOk = TRUE]
    /\ UNCHANGED <<secureTime, lastCall>>
    /\ ClockFrame

\* drResponse = Drm_SecureTime_ProcessResponse(...); a failure goes to ErrorExit
\* through ChkDR.
ClockProcessResponse ==
    /\ secureClock.pc = "ProcessResponse"
    /\ \E ts \in 1..MaxTime, valid \in BOOLEAN :
          LET r == Drm_SecureTime_ProcessResponse(secureTime, ts, valid)
          IN  /\ secureTime' = r.time
              /\ secureClock' = [secureClock EXCEPT
                     !.pc = "ErrorExit",
                     !.rc = IF r.dr # DRM_SUCCESS THEN ClockResponseRc(r.dr) ELSE @,
                     !.failed = IF r.dr # DRM_SUCCESS
                                THEN "Drm_SecureTime_ProcessResponse" ELSE "none",
                     !.ts = ts, !.drResponse = r.dr]
    /\ UNCHANGED lastCall
    /\ ClockFrame

\* ErrorExit: the buffers are freed and rc is returned.
ClockReturn ==
    /\ secureClock.pc = "ErrorExit"
    /\ secureClock' = [secureClock EXCEPT !.pc = "idle"]
    /\ lastCall' = [NoCall EXCEPT
           !.op = "InitSecureClock", !.clock = "network",
           !.rc = secureClock.rc, !.clockFailed = secureClock.failed]
    /\ UNCHANGED secureTime
    /\ ClockFrame

\* SpecClock: calls of InitSecureClock on a live context, against a time
\* authority that answers as it likes; every statement reached is executed.
InitClock ==
    /\ Ready
    /\ history = FALSE

NextClock ==
    \/ ClockCall
    \/ ClockGenerateChallenge
    \/ ClockPetition
    \/ ClockRedirect
    \/ ClockPost
    \/ ClockProcessResponse
    \/ ClockReturn

SpecClock == InitClock /\ [][NextClock]_vars /\ WF_vars(NextClock)

(********************** the two-thread specification *********************)

\* The operations that open with SafeCriticalSection lock(drmAppContextMutex_).
LockedOps ==
    {"GetSecureStopIds", "GetSecureStop", "CommitSecureStop", "DeleteSecureStore",
     "GetSecureStoreHash", "DestroyMediaKeySession"}

\* CreateMediaKeySession, whether it only makes a session or is inside
\* InitializeSystem(), and Deinitialize do not take the lock.
TakesMutex(op) == op \in LockedOps

\* What a thread entering CreateMediaKeySession goes on to do, from the look it
\* takes at the store file.
CreateEntry == IF NeedsReinit(storeExists) THEN "InitializeSystem"
               ELSE "CreateMediaKeySession"

\* The threads inside CreateMediaKeySession.
Creators == {u \in Threads : pc[u] \in {"CreateMediaKeySession", "InitializeSystem"}}

\* Thread t enters an operation: it waits for the lock where the operation
\* takes it.  A session is destroyed only while one is live, and created only
\* while fewer than MaxSessions are live or being made.
Enter(t, op) ==
    /\ pc[t] = "idle"
    /\ op = "DestroyMediaKeySession" => sessions # {}
    /\ op = "CreateMediaKeySession" =>
          Cardinality(sessions) + Cardinality(Creators) < MaxSessions
    /\ IF TakesMutex(op)
       THEN drmAppContextMutex_ = 0 /\ drmAppContextMutex_' = t
       ELSE UNCHANGED drmAppContextMutex_
    /\ pc' = [pc EXCEPT ![t] = IF op = "CreateMediaKeySession" THEN CreateEntry ELSE op]
    /\ UNCHANGED <<lifecycleVars, ledgerVars, lastCall, history, secureClock,
                   secureTime>>

\* Thread t leaves its operation: the lock goes with the guard object.
Leave(t) ==
    /\ pc' = [pc EXCEPT ![t] = "idle"]
    /\ drmAppContextMutex_' = IF drmAppContextMutex_ = t THEN 0 ELSE drmAppContextMutex_
    /\ UNCHANGED <<history, secureClock, secureTime>>

\* The re-initialisations followed with two threads: every step succeeds, or
\* the platform cannot be initialised.
ThreadInitOutcome(o) ==
    o.failed \in {"none", "Drm_Platform_Initialize"} /\ o.clock = "none" /\ o.rev = "none"

ThreadEnter == \E t \in Threads, op \in LockedOps \cup {"CreateMediaKeySession", "Deinitialize"} :
    Enter(t, op)

ThreadGetSecureStopIds == \E t \in Threads :
    /\ pc[t] = "GetSecureStopIds"
    /\ GetSecureStopIds(DRM_ID_SIZE * MaxSessionIds, 0, TRUE, FALSE)
    /\ Leave(t)

ThreadGetSecureStop == \E t \in Threads :
    /\ pc[t] = "GetSecureStop"
    /\ GetSecureStop(1, DRM_ID_SIZE, 1, FALSE, ChallengeSize, TRUE)
    /\ Leave(t)

ThreadCommitSecureStop == \E t \in Threads :
    /\ pc[t] = "CommitSecureStop"
    /\ CommitSecureStop(1, DRM_ID_SIZE, 1, ResponseSize, TRUE)
    /\ Leave(t)

ThreadDeleteSecureStore == \E t \in Threads :
    /\ pc[t] = "DeleteSecureStore"
    /\ DeleteSecureStore
    /\ Leave(t)

ThreadGetSecureStoreHash == \E t \in Threads :
    /\ pc[t] = "GetSecureStoreHash"
    /\ GetSecureStoreHash(SHA256_LENGTH, FALSE)
    /\ Leave(t)

ThreadDestroyMediaKeySession == \E t \in Threads :
    /\ pc[t] = "DestroyMediaKeySession"
    /\ \E h \in {x.h : x \in sessions} : DestroyMediaKeySession(h, FALSE)
    /\ Leave(t)

ThreadCreateMediaKeySession == \E t \in Threads :
    /\ pc[t] \in {"CreateMediaKeySession", "InitializeSystem"}
    /\ \E h \in SessionHandles :
          /\ CreateSession(h, pc[t] = "InitializeSystem")
          /\ pc[t] = "InitializeSystem" => ThreadInitOutcome(lastCall')
    /\ Leave(t)

ThreadDeinitialize == \E t \in Threads :
    /\ pc[t] = "Deinitialize"
    /\ Deinitialize(TRUE)
    /\ Leave(t)

InitThreads == Ready /\ history = FALSE

NextThreads ==
    \/ ThreadEnter
    \/ ThreadGetSecureStopIds
    \/ ThreadGetSecureStop
    \/ ThreadCommitSecureStop
    \/ ThreadDeleteSecureStore
    \/ ThreadGetSecureStoreHash
    \/ ThreadDestroyMediaKeySession
    \/ ThreadCreateMediaKeySession
    \/ ThreadDeinitialize

SpecThreads == InitThreads /\ [][NextThreads]_vars

(******************************* claims **********************************)

\* C2: after more than NONCE_STORE_SIZE successful challenges with pairwise
\* distinct session ids and no commit, a successful GetSecureStopIds returns
\* exactly the last NONCE_STORE_SIZE of those ids, in the order they were
\* challenged, oldest first.
C2_FifoContent ==
    ( /\ lastCall.op = "GetSecureStopIds"
      /\ lastCall.cr = CDMi_SUCCESS
      /\ commits = 0
      /\ IsDistinct(challenged)
      /\ Len(challenged) > NONCE_STORE_SIZE )
    => /\ lastCall.count = NONCE_STORE_SIZE
       /\ lastCall.ids = LastN(challenged, NONCE_STORE_SIZE)

\* C2 witness: an enumeration after more than NONCE_STORE_SIZE challenges, whose
\* first id is no longer the first one challenged.
C2_Witness ==
    /\ lastCall.op = "GetSecureStopIds"
    /\ lastCall.cr = CDMi_SUCCESS
    /\ commits = 0
    /\ Len(challenged) > NONCE_STORE_SIZE
    /\ Len(lastCall.ids) = NONCE_STORE_SIZE
    /\ lastCall.ids[1] # challenged[1]

\* C3: the secure-stop store never holds more entries than GetLdlSessionLimit
\* reports, and a successful challenge for a session id that is not pending, on
\* a full store, removes exactly the oldest entry and appends the new id.
C3_Capacity ==
    /\ [](Len(ledger) <= GetLdlSessionLimit)
    /\ [][ ( /\ lastCall'.op = "GetSecureStop"
             /\ lastCall'.dr = DRM_SUCCESS
             /\ Len(ledger) = GetLdlSessionLimit
             /\ lastCall'.sid \notin Range(ledger) )
           => /\ ledger' = Append(Tail(ledger), lastCall'.sid)
              /\ Len(ledger') = GetLdlSessionLimit ]_vars

\* C3 witness: a full store whose newest entry is the session just challenged
\* and whose oldest entry is not the first session ever challenged.
C3_Witness ==
    /\ lastCall.op = "GetSecureStop"
    /\ lastCall.dr = DRM_SUCCESS
    /\ Len(ledger) = GetLdlSessionLimit
    /\ ledger[Len(ledger)] = lastCall.sid
    /\ Len(challenged) > GetLdlSessionLimit
    /\ ledger[1] # challenged[1]

\* C1: the operations on the shared context hold drmAppContextMutex_ for the
\* whole call, so no two threads are inside two of them at once; the operations
\* are the locked ones, Deinitialize and the InitializeSystem run from
\* CreateMediaKeySession.
ContextOps == LockedOps \cup {"InitializeSystem", "Deinitialize"}

C1_MutualExclusion ==
    \A t, u \in Threads :
        t # u => ~(pc[t] \in ContextOps /\ pc[u] \in ContextOps)

\* C4: when a commit for a session succeeded, the next commit for the same
\* session, with a non-empty id and response, does not return CDMi_SUCCESS.
C4_SecondCommitFails ==
    [][ ( /\ lastCall.op = "CommitSecureStop"
          /\ lastCall.cr = CDMi_SUCCESS
          /\ lastCall.dr = DRM_SUCCESS
          /\ lastCall'.op = "CommitSecureStop"
          /\ lastCall'.sid = lastCall.sid
          /\ lastCall'.sidLen # 0
          /\ lastCall'.respLen # 0 )
        => lastCall'.cr # CDMi_SUCCESS ]_vars

\* C5: when Drm_SecureStop_ProcessResponse was called and answered anything but
\* DRM_SUCCESS, CommitSecureStop does not return CDMi_SUCCESS.
C5_CommitFailureSurfaced ==
    ( /\ lastCall.op = "CommitSecureStop"
      /\ lastCall.dr \notin {"none", DRM_SUCCESS} )
    => lastCall.cr # CDMi_SUCCESS

\* C6: a CommitSecureStop that fails, by its result or in the processing of the
\* response, leaves the secure-stop store as it was; when the store changes,
\* the call succeeded and exactly the entry of the caller's session id is gone.
C6_NoPartialConsumption ==
    [][ lastCall'.op = "CommitSecureStop" =>
          /\ (lastCall'.cr # CDMi_SUCCESS \/ lastCall'.dr # DRM_SUCCESS)
                => ledger' = ledger
          /\ ledger' # ledger =>
                /\ lastCall'.cr = CDMi_SUCCESS
                /\ lastCall'.dr = DRM_SUCCESS
                /\ lastCall'.sid \in Range(ledger)
                /\ ledger' = RemoveId(ledger, lastCall'.sid)
                /\ Len(ledger') = Len(ledger) - 1
                /\ lastCall'.sid \notin Range(ledger') ]_vars

\* C6 witness: a commit whose response did not validate, with the entry of its
\* session still pending.
C6_Witness ==
    /\ lastCall.op = "CommitSecureStop"
    /\ lastCall.dr = DRM_E_INVALID_SIGNATURE
    /\ lastCall.sid \in Range(ledger)

\* C7: CommitSecureStop with an empty session id or an empty response returns
\* CDMi_S_FALSE without calling Drm_SecureStop_ProcessResponse, and changes
\* neither the secure-stop store nor the context.
C7_EmptyInputRejected ==
    /\ []( ( /\ lastCall.op = "CommitSecureStop"
             /\ (lastCall.sidLen = 0 \/ lastCall.respLen = 0) )
           => /\ lastCall.cr = CDMi_S_FALSE
              /\ lastCall.dr = "none" )
    /\ [][ ( /\ lastCall'.op = "CommitSecureStop"
             /\ (lastCall'.sidLen = 0 \/ lastCall'.respLen = 0) )
           => UNCHANGED <<ledger, lifecycleVars>> ]_vars

\* C7 witness: a commit with an empty response for a pending session on a live
\* context.
C7_Witness ==
    /\ lastCall.op = "CommitSecureStop"
    /\ lastCall.sidLen # 0
    /\ lastCall.respLen = 0
    /\ lastCall.sid \in Range(ledger)
    /\ m_poAppContext

\* C8: GetSecureStop on a context that is not ready (m_poAppContext is null, or
\* the Initialize just before failed) returns a failure, inserts nothing and
\* copies no challenge.
C8_NotReadyFails ==
    [][ ( /\ lastCall'.op = "GetSecureStop"
          /\ \/ ~m_poAppContext
             \/ lastCall.op = "Initialize" /\ lastCall.failed # "none" )
        => /\ lastCall'.cr = CDMi_S_FALSE
           /\ ledger' = ledger
           /\ ~lastCall'.copied ]_vars

C10_ClockFailureFatal ==
    ( /\ lastCall.op \in {"Initialize", "CreateMediaKeySession"}
      /\ lastCall.clock = "network"
      /\ lastCall.clockFailed # "none" )
    => /\ lastCall.rc # 0
       /\ lastCall.initCr = CDMi_S_FALSE
       /\ ~m_poAppContext

\* C11: the redirect loop of InitSecureClock terminates whatever the time
\* authority answers: a call that is in the loop leaves it.
C11_RedirectLoopTerminates ==
    (secureClock.pc = "loop") ~> (secureClock.pc # "loop")

\* C12: a response carrying a timestamp earlier than the persisted time makes
\* InitSecureClock fail (non-zero) and leaves the persisted time as it was, and
\* no InitSecureClock step decreases the persisted time.
C12_ClockMonotonic ==
    [][ secureClock.pc = "ProcessResponse" =>
          /\ secureTime' >= secureTime
          /\ secureClock'.ts < secureTime =>
                /\ secureClock'.rc # 0
                /\ secureTime' = secureTime ]_vars

\* C13: when the revocation list file is there and reading or storing it
\* fails, LoadRevocationList reports the failure and the initialisation fails:
\* CreateSystemExt returns CDMi_S_FALSE and no context is live.
C13_RevocationFailureFatal ==
    ( /\ lastCall.op = "Initialize"
      /\ lastCall.revFile = "present"
      /\ lastCall.rev # "none" )
    => /\ lastCall.failed = "LoadRevocationList"
       /\ lastCall.initCr = CDMi_S_FALSE
       /\ ~m_poAppContext

\* C14: an Initialize with no revocation list file and with the metering
\* certificate not configured or unreadable never fails in LoadRevocationList
\* or in the loading of the certificate, and when no other step fails it
\* returns CDMi_SUCCESS from CreateSystemExt and leaves a live context.
C14_SoftFailInitialize ==
    ( /\ lastCall.op = "Initialize"
      /\ lastCall.revFile = "absent"
      /\ lastCall.metering \in {"unset", "unreadable"} )
    => /\ lastCall.rev = "none"
       /\ lastCall.failed \notin {"LoadRevocationList", "metering"}
       /\ lastCall.failed = "none" =>
             /\ lastCall.initCr = CDMi_SUCCESS
             /\ lastCall.ctx
             /\ m_poAppContext

\* C14 witness: an Initialize with an unreadable metering certificate that
\* looked for the revocation list file, did not find it, and left a live context.
C14_Witness ==
    /\ lastCall.op = "Initialize"
    /\ lastCall.revFile = "absent"
    /\ lastCall.metering = "unreadable"
    /\ lastCall.failed = "none"
    /\ lastCall.initCr = CDMi_SUCCESS
    /\ m_poAppContext
    /\ ~m_meteringCertificate

\* C15: after an Initialize in which a step failed no context is live and the
\* platform initialisation of the attempt is not left held: what is held is
\* what was held before, less the one released with a context that was live.
C15_AtomicInitialize ==
    [][ (lastCall'.op = "Initialize" /\ lastCall'.failed # "none") =>
          /\ ~m_poAppContext'
          /\ platformHeld' = IF m_poAppContext /\ platformHeld > 0
                             THEN platformHeld - 1 ELSE platformHeld ]_vars

\* C16: a Deinitialize that follows a Deinitialize makes no store cleanup, no
\* Drm_Uninitialize and no Drm_Platform_Uninitialize call and changes nothing.
C16_DeinitializeIdempotent ==
    [][ ( /\ lastCall.op = "Deinitialize"
          /\ lastCall'.op = "Deinitialize" )
        => /\ lastCall'.cleanup = "none"
           /\ lastCall'.uninit = 0
           /\ UNCHANGED <<lifecycleVars, ledger>> ]_vars

\* C17: a Deinitialize on a live context calls Drm_StoreMgmt_CleanupStore, then
\* Drm_Uninitialize, then Drm_Platform_Uninitialize, and leaves no context and
\* one platform initialisation less, whether the cleanup succeeded or failed.
C17_TeardownNotBlocked ==
    [][ (lastCall'.op = "Deinitialize" /\ m_poAppContext) =>
          /\ ~m_poAppContext'
          /\ lastCall'.cleanup \in {"ok", "failed"}
          /\ lastCall'.uninit = 1
          /\ platformHeld' = platformHeld - 1
          /\ Len(lastCall'.calls) = 3
          /\ lastCall'.calls[1] = (IF lastCall'.cleanup = "ok"
                                   THEN "Drm_StoreMgmt_CleanupStore"
                                   ELSE "Drm_StoreMgmt_CleanupStore(failed)")
          /\ lastCall'.calls[2] = "Drm_Uninitialize"
          /\ lastCall'.calls[3] = "Drm_Platform_Uninitialize" ]_vars

\* C17 witness: a Deinitialize on a live context whose store cleanup failed,
\* after which no context is live.
C17_Witness ==
    /\ lastCall.op = "Deinitialize"
    /\ lastCall.live0
    /\ lastCall.cleanup = "failed"
    /\ lastCall.uninit = 1
    /\ ~m_poAppContext

\* C18: DestroyMediaKeySession on a handle that is no live session of this
\* object does not return CDMi_SUCCESS; on a live session it leaves the context,
\* the platform, the store file and the secure-stop store as they were.
C18_DestroyRejectsInvalid ==
    [][ lastCall'.op = "DestroyMediaKeySession" =>
          /\ (~\E x \in sessions : x.h = lastCall'.handle) =>
                lastCall'.cr # CDMi_SUCCESS
          /\ (\E x \in sessions : x.h = lastCall'.handle) =>
                UNCHANGED <<m_poAppContext, m_drmOemContext, platformHeld,
                            storeExists, ledger>> ]_vars

\* C19: GetSecureStoreHash with a buffer of SHA256_LENGTH bytes on a store file
\* that is there returns CDMi_SUCCESS and the digest of the bytes of the file,
\* and nothing else decides the digest; without the file, or with another
\* length, it does not return CDMi_SUCCESS and writes no digest; contents that
\* differ in one byte have different digests.
StoreContents == {l \in UNION {[1..n -> SessionIds] : n \in 0..MaxSessionIds} :
                     IsDistinct(l)}

DifferInOneByte(a, b) ==
    /\ Len(a) = Len(b)
    /\ Cardinality({i \in 1..Len(a) : a[i] # b[i]}) = 1

C20_ClockStrategy ==
    lastCall.op = "Initialize" =>
        LET asked   == Count(lastCall.calls, "Drm_SecureTime_GetValue")
            network == Count(lastCall.calls, "InitSecureClock")
            anti    == Count(lastCall.calls, "Drm_AntiRollBackClock_Init")
            q       == lastCall.query
        IN  /\ asked = (IF q = "none" THEN 0 ELSE 1)
            /\ network = (IF q \in {DRM_E_SECURETIME_CLOCK_NOT_SET,
                                    DRM_E_TEE_PROVISIONING_REQUIRED}
                          THEN 1 ELSE 0)
            /\ anti = (IF q = DRM_E_CLK_NOT_SUPPORTED THEN 1 ELSE 0)
            /\ network + anti <= 1
            /\ (network = 1) <=> (lastCall.clock = "network")
            /\ (anti = 1) <=> (lastCall.clock = "antirollback")
            /\ q = DRM_SUCCESS => lastCall.failed # "Drm_SecureTime_GetValue"
            /\ (q \notin {"none", DRM_SUCCESS, DRM_E_SECURETIME_CLOCK_NOT_SET,
                          DRM_E_TEE_PROVISIONING_REQUIRED, DRM_E_CLK_NOT_SUPPORTED}) =>
                  /\ lastCall.failed = "Drm_SecureTime_GetValue"
                  /\ lastCall.initCr = CDMi_S_FALSE
                  /\ ~m_poAppContext

\* C20 witness: an Initialize that completed on the anti-rollback clock after
\* the query reported the secure clock unsupported.
C20_Witness ==
    /\ lastCall.op = "Initialize"
    /\ lastCall.query = DRM_E_CLK_NOT_SUPPORTED
    /\ lastCall.clock = "antirollback"
    /\ lastCall.failed = "none"
    /\ m_poAppContext

\* C21: within one Initialize the revocation list is loaded before the clock
\* is looked at (the query of the stored time and whichever strategy follows
\* it), and a context is left live only when the revocation step ran and did
\* not fail.
EachBefore(s, a, b) ==
    \A i, j \in 1..Len(s) : (s[i] = a /\ s[j] = b) => i < j

C21_RevocationBeforeClock ==
    lastCall.op = "Initialize" =>
        /\ EachBefore(lastCall.calls, "LoadRevocationList", "Drm_SecureTime_GetValue")
        /\ EachBefore(lastCall.calls, "LoadRevocationList", "InitSecureClock")
        /\ EachBefore(lastCall.calls, "LoadRevocationList",
                      "Drm_AntiRollBackClock_Init")
        /\ (lastCall.ctx /\ lastCall.revFile # "none") => lastCall.rev = "none"

\* C22: in InitSecureClock the challenge is generated before any petition;
\* every petition after the first answers a 301/302 and goes to the URL the
\* petition before it returned, one petition per redirect; the challenge is
\* posted at most once, only after a 200, to the URL the last petition
\* returned; the response reaches the SDK only after a successful POST; and a
\* call with three redirects, then 200, a successful POST and a response the
\* SDK accepts returns 0 with the clock set from that response.
C22_BootstrapOrder ==
    [][ LET c == secureClock
            d == secureClock'
        IN  /\ d.petitions > c.petitions =>
                  /\ c.challenge
                  /\ d.petitions = c.petitions + 1
                  /\ d.target = (IF c.petitions = 0 THEN ServerUrl ELSE c.url)
                  /\ c.petitions > 0 => c.petRespCode \in {301, 302}
            /\ (c.pc = "loop" /\ c.petRespCode \in {301, 302}) =>
                  /\ d.petitions = NextPetition(c.petitions)
                  /\ d.target = c.url
                  /\ c.url = PetitionUrl(c.petitions)
            /\ d.posts > c.posts =>
                  /\ c.posts = 0
                  /\ c.challenge
                  /\ c.petitions > 0
                  /\ c.petRespCode = 200
                  /\ d.postUrl = c.url
                  /\ c.url = PetitionUrl(c.petitions)
            /\ (c.pc = "ProcessResponse" /\ d.pc # "ProcessResponse") =>
                  c.postOk /\ c.posts = 1
            /\ secureTime' # secureTime => c.pc = "ProcessResponse" /\ c.postOk
            /\ (c.pc = "ErrorExit" /\ d.pc = "idle" /\ c.hops = 3
                    /\ c.petRespCode = 200 /\ c.postOk
                    /\ c.drResponse = DRM_SUCCESS /\ c.failed = "none") =>
                  /\ lastCall'.op = "InitSecureClock"
                  /\ lastCall'.rc = 0
                  /\ secureTime = c.ts ]_vars

\* C22 witness: a call that followed three redirects, was answered 200, posted
\* the challenge to the URL of the fourth petition and returned 0 with the
\* clock set.
C22_Witness ==
    /\ lastCall.op = "InitSecureClock"
    /\ lastCall.rc = 0
    /\ secureClock.pc = "idle"
    /\ secureClock.hops = 3
    /\ secureClock.petitions = 4
    /\ secureClock.petRespCode = 200
    /\ secureClock.posts = 1
    /\ secureClock.postOk
    /\ secureClock.postUrl = PetitionUrl(4)
    /\ secureClock.drResponse = DRM_SUCCESS
    /\ secureTime = secureClock.ts
    /\ secureTime > 0

\* C23: whenever CreateMediaKeySession returns CDMi_SUCCESS, the application
\* context handed to the new MediaKeySession is a live one, not a null pointer.
C23_SessionHasContext ==
    (lastCall.op = "CreateMediaKeySession" /\ lastCall.cr = CDMi_SUCCESS) =>
        /\ lastCall.ctx
        /\ \E x \in sessions : x.h = lastCall.handle /\ x.ctx

\* C24: GetSecureStopIds copies at most idsLength bytes into ids (DRM_ID_SIZE
\* bytes for each id copied), and copies nothing when it fails.
C24_IdsWithinBuffer ==
    lastCall.op = "GetSecureStopIds" =>
        /\ Len(lastCall.ids) * DRM_ID_SIZE <= lastCall.idsLength
        /\ lastCall.cr # CDMi_SUCCESS => lastCall.ids = <<>>

\* C25: the platform is released only when a successful Drm_Platform_Initialize
\* is not yet released, and Drm_Platform_Initialize is not called while an
\* earlier platform initialisation is unreleased.  platformHeld counts the
\* successful initialisations not yet released; a live context is released
\* by InitializeSystem before it initialises again.
C25_PlatformBalanced ==
    [][ /\ lastCall'.op = "Deinitialize" => platformHeld > 0
        /\ ( \/ lastCall'.op = "Initialize"
             \/ (lastCall'.op = "CreateMediaKeySession" /\ lastCall'.reinit) ) =>
              /\ m_poAppContext => platformHeld = 1
              /\ ~m_poAppContext => platformHeld = 0 ]_vars

\* C26: at most one opaque working buffer and at most one revocation buffer
\* allocated by CreateSystemExt are outstanding at any time, and none is
\* outstanding after Deinitialize.
C26_BuffersDoNotAccumulate ==
    /\ buffers.opaque <= 1
    /\ buffers.revocation <= 1
    /\ lastCall.op = "Deinitialize" =>
          (buffers.opaque = 0 /\ buffers.revocation = 0)

=============================================================================
